---- MODULE Spec2Model ----
(***************************************************************************)
(* A model of indy: the descriptor scanner (descriptors.py, scanner.py)    *)
(* and the sweep driver (indy.py).                                         *)
(*                                                                         *)
(* The specifications:                                                     *)
(*   SpecD  one DescriptorScriptIterator under every sequence of           *)
(*          next_script / found_used_script calls;                         *)
(*   Spec   a whole run of find_utxos: scan_master_key driving the         *)
(*          ScriptIterator over the registry against an oracle, then the   *)
(*          sweep;                                                         *)
(*   SpecN  Spec on wallets with fewer used scripts and a wider range of   *)
(*          address gaps;                                                  *)
(*   SpecP  Spec on the smallest gaps, with two used scripts in one        *)
(*          listunspent batch;                                             *)
(*   SpecB  the scan run twice on one oracle, without and with batching;   *)
(*   SpecT  one Transaction: its construction, virtual_size and to_bytes.  *)
(***************************************************************************)
EXTENDS Integers, Sequences, FiniteSets, TLC

VARIABLES
    \* one DescriptorScriptIterator and its caller (SpecD)
    it,             \* the iterator
    d_out,          \* what the last next_script call returned
    d_calls,        \* number of next_script calls
    d_used_calls,   \* number of found_used_script calls
    d_emitted,      \* number of scripts returned
    d_walk,         \* the last cell returned from the cursor walk, <<>> if none
    d_cells,        \* the cells returned, in order
    d_marked,       \* the cells found_used_script was called for, right after their return
    \* a run of find_utxos (Spec)
    should_batch,   \* not --no-batching
    oracle_history, \* the scripts with a non-empty history
    oracle_unspent, \* the scripts with an unspent output
    script_iter,    \* scan_master_key's ScriptIterator
    pc,             \* where the run is
    scripts,        \* the batch being pulled or processed
    responses,      \* the get_history responses of the batch
    pos,            \* position of the loop over zip(scripts, responses)
    used_scripts,
    utxos,
    sweep,          \* the arguments and results of the sweep part of find_utxos
    n_next,         \* number of ScriptIterator.next_script calls
    n_history,      \* number of get_history probes issued
    n_unspent,      \* number of listunspent requests issued
    probed,         \* the cells probed
    discovered,     \* the cells marked used
    unapplied,      \* hits of the probed batch not yet marked used
    failed,         \* an RPC of the scan has raised
    run,            \* 1, or 2 in the second of two runs on one oracle (SpecB)
    first_utxos,    \* the UTXOs the first of the two runs returned
    \* one Transaction and its caller (SpecT)
    transaction     \* the arguments of the constructor, the object, what was read of it

dvars == <<it, d_out, d_calls, d_used_calls, d_emitted, d_walk, d_cells, d_marked>>
svars == <<should_batch, oracle_history, oracle_unspent, script_iter, pc, scripts,
           responses, pos, used_scripts, utxos, sweep, n_next, n_history, n_unspent,
           probed, discovered, unapplied, failed, run, first_utxos>>
tvars == <<transaction>>
vars == <<dvars, svars, tvars>>

\* ------------------------------------------------------------------ bounds
MaxAddressGap == 3
MaxAccountGap == 1
MaxUsedCalls == 3

MaxCalls == 16
MaxHits == 2
OracleMaxIndex == 2
OracleMaxAccount == 1
LastHitDescriptor == 7
MaxTotalScripts == 24
OracleValue == 1000
MaxFeeRate == 5
MaxInputs == 3
\* SpecN
NarrowMaxAddressGap == 3
NarrowMaxAccountGap == 0
NarrowMaxHits == 1
NarrowOracleMaxIndex == 1
NarrowOracleMaxAccount == 0
\* the scans with two used scripts in one batch (SpecP)
PairMaxGap == 0
PairOracleMax == 0
PairMaxHits == 2

\* program constants
MAX_BATCH_SIZE == 100
NON_SEGWIT_DUST == 546
VERSION == 2
SEGWIT_MARKER == 0
SEGWIT_FLAG == 1
\* byte lengths: a compressed public key, a DER signature with its sighash byte
PubkeyLen == 33
MinSigLen == 71
MaxSigLen == 72

Min(x, y) == IF x < y THEN x ELSE y
Max(x, y) == IF x > y THEN x ELSE y

\* ------------------------------------------------------------------- paths
\* A path is the sequence of its components after "m"; a component is a
\* literal number or one of the placeholders 'a' and 'i', hardened or not.
Lit(n) == [var |-> "-", n |-> n, h |-> FALSE]
LitH(n) == [var |-> "-", n |-> n, h |-> TRUE]
VarA == [var |-> "a", n |-> 0, h |-> TRUE]
VarI == [var |-> "i", n |-> 0, h |-> FALSE]
VarIH == [var |-> "i", n |-> 0, h |-> TRUE]

has_variable_account(path) == \E k \in 1..Len(path) : path[k].var = "a"

has_variable_index(path) == \E k \in 1..Len(path) : path[k].var = "i"

with_account(path, account) ==
    [k \in 1..Len(path) |->
        IF path[k].var = "a" THEN [path[k] EXCEPT !.var = "-", !.n = account] ELSE path[k]]

with_index(path, index) ==
    [k \in 1..Len(path) |->
        IF path[k].var = "i" THEN [path[k] EXCEPT !.var = "-", !.n = index] ELSE path[k]]

\* to_list(index) on a path whose account is already substituted. A derivation
\* number HARDENED_INDEX + n is written <<TRUE, n>>, a plain n <<FALSE, n>>.
to_list(path, index) ==
    LET p == with_index(path, index)
    IN [k \in 1..Len(p) |-> <<p[k].h, p[k].n>>]

\* -------------------------------------------------- DescriptorScriptIterator
Unset == -1

NoScript == [ok |-> FALSE, index |-> 0, account |-> 0, from |-> "none"]

DescriptorScriptIterator(path, script_type, address_gap, account_gap) ==
    LET max_index == IF has_variable_index(path) THEN address_gap ELSE 0
        max_account == IF has_variable_account(path) THEN account_gap ELSE 0
    IN [path |-> path, script_type |-> script_type,
        address_gap |-> address_gap, account_gap |-> account_gap,
        index |-> 0, account |-> 0,
        max_index |-> max_index, max_account |-> max_account,
        extra_indices |-> <<>>, extra_accounts |-> <<>>,
        last_index |-> Unset, last_account |-> Unset,
        total_scripts |-> (max_index + 1) * (max_account + 1)]

\* The output script of a cell: the script type and the derivation numbers of
\* the path with the account and the index substituted.
script_at(d, index, account) ==
    <<d.script_type, to_list(with_account(d.path, account), index)>>

\* the cursor's move with the next diagonal's total not incremented
M_AdvanceCursor(d) ==
    IF d.index = 0 \/ d.account = d.max_account
    THEN LET diagonal_total == d.index + d.account
             index == Min(diagonal_total, d.max_index)
         IN [d EXCEPT !.index = index, !.account = diagonal_total - index]
    ELSE [d EXCEPT !.index = d.index - 1, !.account = d.account + 1]

\* the cursor's move after an emission (descriptors.py 160-168)
AdvanceCursor(d) ==
    IF d.index = 0 \/ d.account = d.max_account
    THEN LET diagonal_total == d.index + d.account + 1
             index == Min(diagonal_total, d.max_index)
         IN [d EXCEPT !.index = index, !.account = diagonal_total - index]
    ELSE [d EXCEPT !.index = d.index - 1, !.account = d.account + 1]

\* remembering the emitted cursor cell (descriptors.py 142-143)
RememberLast(d) == [d EXCEPT !.last_index = d.index, !.last_account = d.account]

\* the bound test of the cursor, off by one
M_CursorOutside(d) == d.index >= d.max_index \/ d.account > d.max_account

CursorOutside(d) == d.index > d.max_index \/ d.account > d.max_account

\* next_script serving extra_accounts before extra_indices
M_Desc_next_script(d) ==
    IF d.extra_accounts # <<>>
    THEN LET cell == Head(d.extra_accounts)
         IN [it |-> [d EXCEPT !.extra_accounts = Tail(@)],
             out |-> [ok |-> TRUE, index |-> cell[1], account |-> cell[2], from |-> "extra_accounts"]]
    ELSE IF d.extra_indices # <<>>
    THEN LET cell == Head(d.extra_indices)
         IN [it |-> [d EXCEPT !.extra_indices = Tail(@)],
             out |-> [ok |-> TRUE, index |-> cell[1], account |-> cell[2], from |-> "extra_indices"]]
    ELSE IF CursorOutside(d)
    THEN [it |-> d, out |-> NoScript]
    ELSE [it |-> AdvanceCursor(RememberLast(d)),
          out |-> [ok |-> TRUE, index |-> d.index, account |-> d.account, from |-> "cursor"]]

\* next_script: the descriptor after the call and the returned cell
Desc_next_script(d) ==
    IF d.extra_indices # <<>>
    THEN LET cell == Head(d.extra_indices)
         IN [it |-> [d EXCEPT !.extra_indices = Tail(@)],
             out |-> [ok |-> TRUE, index |-> cell[1], account |-> cell[2], from |-> "extra_indices"]]
    ELSE IF d.extra_accounts # <<>>
    THEN LET cell == Head(d.extra_accounts)
         IN [it |-> [d EXCEPT !.extra_accounts = Tail(@)],
             out |-> [ok |-> TRUE, index |-> cell[1], account |-> cell[2], from |-> "extra_accounts"]]
    ELSE IF CursorOutside(d)
    THEN [it |-> d, out |-> NoScript]
    ELSE [it |-> AdvanceCursor(RememberLast(d)),
          out |-> [ok |-> TRUE, index |-> d.index, account |-> d.account, from |-> "cursor"]]

InQueue(q, cell) == \E k \in 1..Len(q) : q[k] = cell

\* the account written into the cells of the address-gap expansion
ExtraIndexAccount(d) == d.account

\* one iteration of the address-gap loop without the count of the new cell
M_AddExtraIndex(d, i) ==
    IF i > d.max_index /\ ~InQueue(d.extra_indices, <<i, d.last_account>>)
    THEN [d EXCEPT !.extra_indices = Append(@, <<i, ExtraIndexAccount(d)>>)]
    ELSE d

\* one iteration of the address-gap loop (descriptors.py 179-181)
AddExtraIndex(d, i) ==
    IF i > d.max_index /\ ~InQueue(d.extra_indices, <<i, d.last_account>>)
    THEN [d EXCEPT !.extra_indices = Append(@, <<i, ExtraIndexAccount(d)>>),
                   !.total_scripts = @ + 1]
    ELSE d

RECURSIVE AddExtraIndices(_, _, _)
\* for i in range(i, stop)
AddExtraIndices(d, i, stop) ==
    IF i >= stop THEN d ELSE AddExtraIndices(AddExtraIndex(d, i), i + 1, stop)

\* the cells of a newly added account row, with the cell of the current
\* diagonal queued too
M_NewRowCells(d, max_account) ==
    LET current_diagonal == d.index + d.account
    IN [i \in 1..Max(0, current_diagonal - max_account + 1) |-> <<i - 1, max_account>>]

\* the cells of a newly added account row (descriptors.py 187-189)
NewRowCells(d, max_account) ==
    LET current_diagonal == d.index + d.account
    IN [i \in 1..Max(0, current_diagonal - max_account) |-> <<i - 1, max_account>>]

RECURSIVE AddAccounts(_)
\* while self.max_account <= self.last_account + self.account_gap
AddAccounts(d) ==
    IF d.max_account <= d.last_account + d.account_gap
    THEN AddAccounts([d EXCEPT !.max_account = @ + 1,
                               !.total_scripts = @ + d.max_index + 1,
                               !.extra_accounts = @ \o NewRowCells(d, d.max_account + 1)])
    ELSE d

\* found_used_script with the address-gap range one too long
M_Desc_found_used_script(d) ==
    AddAccounts(AddExtraIndices(d, d.last_index + 1, d.last_index + d.address_gap + 2))

Desc_found_used_script(d) ==
    AddAccounts(AddExtraIndices(d, d.last_index + 1, d.last_index + d.address_gap + 1))

has_priority_scripts(d) == d.extra_indices # <<>>

\* ---------------------------------------------------------------- registry
\* descriptors.py 14-36, in insertion order
Bip(purpose, change) == <<LitH(purpose), LitH(0), VarA, Lit(change), VarI>>
Samourai(purpose, account, change) ==
    <<LitH(purpose), LitH(0), LitH(account), Lit(change), VarI>>
AllTypes == <<"LEGACY", "COMPAT", "SEGWIT">>

descriptors ==
    << [path |-> Bip(44, 0), types |-> <<"LEGACY">>],
       [path |-> Bip(44, 1), types |-> <<"LEGACY">>],
       [path |-> Bip(49, 0), types |-> <<"COMPAT">>],
       [path |-> Bip(49, 1), types |-> <<"COMPAT">>],
       [path |-> Bip(84, 0), types |-> <<"SEGWIT">>],
       [path |-> Bip(84, 1), types |-> <<"SEGWIT">>],
       [path |-> <<LitH(0), LitH(0), VarIH>>, types |-> AllTypes],
       [path |-> <<LitH(0), Lit(0), VarI>>, types |-> AllTypes],
       [path |-> <<LitH(0), Lit(1), VarI>>, types |-> AllTypes],
       [path |-> Samourai(44, 2147483647, 0), types |-> <<"LEGACY">>],
       [path |-> Samourai(44, 2147483647, 1), types |-> <<"LEGACY">>],
       [path |-> Samourai(49, 2147483647, 0), types |-> <<"COMPAT">>],
       [path |-> Samourai(49, 2147483647, 1), types |-> <<"COMPAT">>],
       [path |-> Samourai(84, 2147483647, 0), types |-> <<"SEGWIT">>],
       [path |-> Samourai(84, 2147483647, 1), types |-> <<"SEGWIT">>],
       [path |-> Samourai(84, 2147483646, 0), types |-> <<"SEGWIT">>],
       [path |-> Samourai(84, 2147483646, 1), types |-> <<"SEGWIT">>],
       [path |-> Samourai(84, 2147483645, 0), types |-> <<"SEGWIT">>],
       [path |-> Samourai(84, 2147483645, 1), types |-> <<"SEGWIT">>],
       [path |-> Samourai(84, 2147483644, 0), types |-> <<"SEGWIT">>],
       [path |-> Samourai(84, 2147483644, 1), types |-> <<"SEGWIT">>] >>

RECURSIVE Pairs(_)
\* for path, types in descriptors.items(): for type in types
Pairs(k) ==
    IF k > Len(descriptors) THEN <<>>
    ELSE [t \in 1..Len(descriptors[k].types) |->
             [path |-> descriptors[k].path, type |-> descriptors[k].types[t]]]
         \o Pairs(k + 1)

RegistryPairs == Pairs(1)

\* ----------------------------------------------------------- ScriptIterator
\* The iterator is a record: objects (the DescriptorScriptIterator objects by
\* identity, 1..27 in construction order), descriptors (the list, of
\* identities), index, last_descriptor (an identity, or None).
None == 0

ScriptIterator(address_gap, account_gap) ==
    [objects |-> [id \in 1..Len(RegistryPairs) |->
                     DescriptorScriptIterator(RegistryPairs[id].path, RegistryPairs[id].type,
                                              address_gap, account_gap)],
     descriptors |-> [id \in 1..Len(RegistryPairs) |-> id],
     index |-> 0,
     last_descriptor |-> None]

RemoveAt(seq, k) == [j \in 1..(Len(seq) - 1) |-> IF j < k THEN seq[j] ELSE seq[j + 1]]

\* the cursor left where it is after a removal, and then incremented
M_IndexAfterRemoval(index) == index

\* the cursor after a removal at self.index (descriptors.py 224-226)
IndexAfterRemoval(index) == index - 1

\* the wrap of the cursor (descriptors.py 228-230)
WrapIndex(index, len) == IF index + 1 >= len THEN 0 ELSE index + 1

\* whether the priority branch is taken (descriptors.py 216)
TakesPriority(s) ==
    s.last_descriptor # None /\ has_priority_scripts(s.objects[s.last_descriptor])

\* _next_descriptor_script: the iterator after the call, the returned cell and
\* the descriptor that returned it
next_descriptor_script(s) ==
    IF TakesPriority(s)
    THEN LET r == Desc_next_script(s.objects[s.last_descriptor])
         IN [s |-> [s EXCEPT !.objects[s.last_descriptor] = r.it],
             out |-> r.out, desc |-> s.last_descriptor]
    ELSE LET id == s.descriptors[s.index + 1]
             r == Desc_next_script(s.objects[id])
             removed == IF r.out.ok THEN s.descriptors ELSE RemoveAt(s.descriptors, s.index + 1)
             index == IF r.out.ok THEN s.index ELSE IndexAfterRemoval(s.index)
         IN [s |-> [s EXCEPT !.objects[id] = r.it,
                             !.last_descriptor = id,
                             !.descriptors = removed,
                             !.index = WrapIndex(index, Len(removed))],
             out |-> r.out, desc |-> id]

RECURSIVE Iter_next_script(_)
\* while len(self.descriptors) > 0
Iter_next_script(s) ==
    IF Len(s.descriptors) > 0
    THEN LET r == next_descriptor_script(s)
         IN IF r.out.ok THEN r ELSE Iter_next_script(r.s)
    ELSE [s |-> s, out |-> NoScript, desc |-> None]

RECURSIVE SumTotals(_, _)
SumTotals(s, k) ==
    IF k > Len(s.descriptors) THEN 0
    ELSE s.objects[s.descriptors[k]].total_scripts + SumTotals(s, k + 1)

total_scripts(s) == SumTotals(s, 1)

Iter_found_used_script(s) ==
    [s EXCEPT !.objects[s.last_descriptor] = Desc_found_used_script(@)]

\* =================================================================== SpecD
\* One DescriptorScriptIterator, called in every order.

\* the shapes of path a descriptor can be built on
DPaths ==
    { Bip(44, 0),
      <<LitH(0), Lit(0), VarI>>,
      <<LitH(44), LitH(0), VarA>>,
      <<LitH(0), Lit(0), Lit(0)>> }

\* the variables of the run of find_utxos, idle
SIdle ==
    /\ should_batch = FALSE
    /\ oracle_history = {}
    /\ oracle_unspent = {}
    /\ script_iter = [objects |-> <<>>, descriptors |-> <<>>, index |-> 0, last_descriptor |-> None]
    /\ pc = "idle"
    /\ scripts = <<>>
    /\ responses = <<>>
    /\ pos = 0
    /\ used_scripts = <<>>
    /\ utxos = <<>>
    /\ sweep = <<>>
    /\ n_next = 0
    /\ n_history = 0
    /\ n_unspent = 0
    /\ probed = {}
    /\ discovered = {}
    /\ unapplied = 0
    /\ failed = FALSE
    /\ run = 1
    /\ first_utxos = {}

\* no Transaction
TIdle == transaction = <<>>

InitD ==
    /\ \E path \in DPaths, address_gap \in 0..MaxAddressGap, account_gap \in 0..MaxAccountGap :
          it = DescriptorScriptIterator(path, "LEGACY", address_gap, account_gap)
    /\ d_out = NoScript
    /\ d_calls = 0
    /\ d_used_calls = 0
    /\ d_emitted = 0
    /\ d_walk = <<>>
    /\ d_cells = <<>>
    /\ d_marked = {}
    /\ SIdle
    /\ TIdle

D_NextScript ==
    /\ d_calls < MaxCalls
    /\ LET r == Desc_next_script(it)
       IN /\ it' = r.it
          /\ d_out' = r.out
          /\ d_emitted' = IF r.out.ok THEN d_emitted + 1 ELSE d_emitted
          /\ d_walk' = IF r.out.from = "cursor" THEN <<r.out.index, r.out.account>> ELSE d_walk
          /\ d_cells' = IF r.out.ok THEN Append(d_cells, <<r.out.index, r.out.account>>) ELSE d_cells
    /\ d_calls' = d_calls + 1
    /\ UNCHANGED <<d_used_calls, d_marked, svars, tvars>>

\* found_used_script reads last_index, which the first emission sets
D_FoundUsed ==
    /\ it.last_index # Unset
    /\ d_used_calls < MaxUsedCalls
    /\ it' = Desc_found_used_script(it)
    /\ d_used_calls' = d_used_calls + 1
    /\ d_marked' = IF d_out.ok THEN d_marked \cup {<<d_out.index, d_out.account>>} ELSE d_marked
    /\ UNCHANGED <<d_out, d_calls, d_emitted, d_walk, d_cells, svars, tvars>>

NextD == D_NextScript \/ D_FoundUsed

SpecD == InitD /\ [][NextD]_vars

\* ==================================================================== Spec
\* A run of find_utxos: scan_master_key, then the sweep.

batch_size == IF should_batch THEN MAX_BATCH_SIZE ELSE 1

\* A candidate is a cell with the descriptor that emitted it (its path
\* template and script type).
Candidate(r) == [desc |-> r.desc, index |-> r.out.index, account |-> r.out.account]

Cell(c) == <<c.desc, c.index, c.account>>

program(c) == script_at(script_iter.objects[c.desc], c.index, c.account)

full_path(c) == with_index(with_account(script_iter.objects[c.desc].path, c.account), c.index)

\* script.set_as_used(): the candidate is marked used on the global iterator
set_as_used(s, c) == Iter_found_used_script(s)

\* the batch loop dropping a partial batch when the iterator is exhausted
M_AfterPull(batch, got) ==
    IF got THEN (IF Len(batch) = batch_size THEN "get_history" ELSE "pull")
    ELSE "scan_done"

\* where the batch loop goes after a next_script call (scanner.py 50-58)
AfterPull(batch, got) ==
    IF got THEN (IF Len(batch) = batch_size THEN "get_history" ELSE "pull")
    ELSE IF Len(batch) = 0 THEN "scan_done" ELSE "get_history"

\* the loop over zip(scripts, responses) left after its first iteration
M_AfterMark(at, len) == "list_unspent"

\* where the loop over zip(scripts, responses) goes after the iteration at pos
\* (scanner.py 72-84)
AfterMark(at, len) == IF at = len THEN "list_unspent" ELSE "mark"

\* the failure caught and the scan returning what it has
M_AfterRpcError == "scan_done"

\* where the scan goes when an RPC fails: the exception leaves scan_master_key
\* and find_utxos
AfterRpcError == "rpc_failed"

\* the batched listunspent request of the used scripts (scanner.py 86-90)
unspent_request(used) == [k \in 1..Len(used) |-> program(used[k])]

\* the server's answer to a batch of listunspent requests, one response per
\* request in the order of the requests: the unspent outputs of each script
\* (scanner.py 92, 120-133)
electrum_rpc(requests) ==
    [k \in 1..Len(requests) |->
        IF requests[k] \in oracle_unspent
        THEN << [tx_hash |-> requests[k], tx_pos |-> 0, value |-> OracleValue] >>
        ELSE <<>>]

\* the Utxo records of one listunspent response (scanner.py 94-99)
UtxosOf(c, response) ==
    [e \in 1..Len(response) |->
        [txid |-> response[e].tx_hash, output_index |-> response[e].tx_pos,
         amount_in_sat |-> response[e].value,
         path |-> full_path(c), script_type |-> script_iter.objects[c.desc].script_type]]

\* zip(used_scripts, responses) read from the other end of the responses
M_Zip(used, listunspent) ==
    [k \in 1..Min(Len(used), Len(listunspent)) |->
        [script |-> used[k], response |-> listunspent[Len(listunspent) + 1 - k]]]

\* zip(used_scripts, responses) (scanner.py 94)
Zip(used, listunspent) ==
    [k \in 1..Min(Len(used), Len(listunspent)) |->
        [script |-> used[k], response |-> listunspent[k]]]

RECURSIVE Collect(_, _)
\* for script, response in zip(used_scripts, responses)
Collect(pairs, k) ==
    IF k > Len(pairs) THEN <<>>
    ELSE UtxosOf(pairs[k].script, pairs[k].response) \o Collect(pairs, k + 1)

\* the first descriptor of the registry whose path has no 'a' placeholder
FirstIndexOnly ==
    CHOOSE id \in 1..Len(RegistryPairs) :
        /\ ~has_variable_account(RegistryPairs[id].path)
        /\ \A j \in 1..(id - 1) : has_variable_account(RegistryPairs[j].path)

\* the scripts of the cells [0..max_index] x [0..max_account] of some descriptors
ScriptsOf(ids, max_index, max_account) ==
    { script_at(DescriptorScriptIterator(RegistryPairs[id].path, RegistryPairs[id].type, 0, 0), i, a) :
        id \in ids, i \in 0..max_index, a \in 0..max_account }

\* the scripts the oracle may know
HitDescriptors == {1} \cup (FirstIndexOnly..LastHitDescriptor)

OracleScripts == ScriptsOf(HitDescriptors, OracleMaxIndex, OracleMaxAccount)

NotRead == [master_privkey |-> FALSE, address |-> "not read", fee_rate |-> -1,
            should_broadcast |-> FALSE, tx |-> <<>>, broadcast |-> 0,
            fee_rate_arg |-> -1, estimate_asked |-> FALSE, estimate |-> 0,
            tx_without_fee |-> <<>>, fee |-> 0, error |-> "none"]

\* find_utxos is called: the arguments, the oracle, and the locals of
\* scan_master_key before its loop
ScanInit(address_gaps, account_gaps, oracle_scripts, max_hits) ==
    /\ should_batch \in BOOLEAN
    /\ oracle_history \in {h \in SUBSET oracle_scripts : Cardinality(h) <= max_hits}
    /\ oracle_unspent \in SUBSET oracle_history
    /\ \E address_gap \in address_gaps, account_gap \in account_gaps :
          script_iter = ScriptIterator(address_gap, account_gap)
    /\ pc = "pull"
    /\ scripts = <<>>
    /\ responses = <<>>
    /\ pos = 0
    /\ used_scripts = <<>>
    /\ utxos = <<>>
    /\ sweep = NotRead
    /\ n_next = 0
    /\ n_history = 0
    /\ n_unspent = 0
    /\ probed = {}
    /\ discovered = {}
    /\ unapplied = 0
    /\ failed = FALSE
    /\ run = 1
    /\ first_utxos = {}
    /\ it = <<>>
    /\ d_out = NoScript
    /\ d_calls = 0
    /\ d_used_calls = 0
    /\ d_emitted = 0
    /\ d_walk = <<>>
    /\ d_cells = <<>>
    /\ d_marked = {}
    /\ TIdle

Init == ScanInit(0..MaxAddressGap, 0..MaxAccountGap, OracleScripts, MaxHits)

WithinCap == \A id \in DOMAIN script_iter.objects :
                script_iter.objects[id].total_scripts <= MaxTotalScripts

\* script = script_iter.next_script(), in the loop that computes a batch
NextScript ==
    /\ pc = "pull"
    /\ WithinCap
    /\ LET r == Iter_next_script(script_iter)
       IN /\ script_iter' = r.s
          /\ scripts' = IF r.out.ok THEN Append(scripts, Candidate(r)) ELSE scripts
          /\ pc' = AfterPull(scripts', r.out.ok)
    /\ n_next' = n_next + 1
    /\ UNCHANGED <<should_batch, oracle_history, oracle_unspent, responses, pos, used_scripts,
                   utxos, sweep, n_history, n_unspent, probed, discovered, unapplied,
                   failed, run, first_utxos, dvars, tvars>>

\* responses = await _electrum_rpc(client, batch_request), get_history
GetHistory ==
    /\ pc = "get_history"
    /\ responses' = [k \in 1..Len(scripts) |-> program(scripts[k]) \in oracle_history]
    /\ n_history' = n_history + Len(scripts)
    /\ probed' = probed \cup {Cell(scripts[k]) : k \in 1..Len(scripts)}
    /\ unapplied' = Cardinality({k \in 1..Len(scripts) : program(scripts[k]) \in oracle_history})
    /\ pos' = 1
    /\ pc' = "mark"
    /\ UNCHANGED <<should_batch, oracle_history, oracle_unspent, script_iter, scripts,
                   used_scripts, utxos, sweep, n_next, n_unspent, discovered,
                   failed, run, first_utxos, dvars, tvars>>

\* one iteration of the loop over zip(scripts, responses)
MarkUsed ==
    /\ pc = "mark"
    /\ IF responses[pos]
       THEN /\ script_iter' = set_as_used(script_iter, scripts[pos])
            /\ used_scripts' = Append(used_scripts, scripts[pos])
            /\ discovered' = discovered \cup {Cell(scripts[pos])}
            /\ unapplied' = unapplied - 1
       ELSE UNCHANGED <<script_iter, used_scripts, discovered, unapplied>>
    /\ pc' = AfterMark(pos, Len(scripts))
    /\ pos' = IF pc' = "mark" THEN pos + 1 ELSE 0
    /\ UNCHANGED <<should_batch, oracle_history, oracle_unspent, scripts, responses, utxos,
                   sweep, n_next, n_history, n_unspent, probed, failed, run, first_utxos, dvars, tvars>>

\* responses = await _electrum_rpc(client, batch_request), listunspent, and the
\* rest of the iteration; no request is sent for an empty batch_request
ListUnspent ==
    /\ pc = "list_unspent"
    /\ utxos' = utxos \o Collect(Zip(used_scripts, electrum_rpc(unspent_request(used_scripts))), 1)
    /\ n_unspent' = n_unspent + Len(used_scripts)
    /\ scripts' = <<>>
    /\ responses' = <<>>
    /\ used_scripts' = <<>>
    /\ pc' = "pull"
    /\ UNCHANGED <<should_batch, oracle_history, oracle_unspent, script_iter, pos, sweep,
                   n_next, n_history, probed, discovered, unapplied, failed, run,
                   first_utxos, dvars, tvars>>

\* an RPC of the scan raises
RpcFails ==
    /\ \/ pc = "get_history"
       \/ pc = "list_unspent" /\ used_scripts # <<>>
    /\ pc' = AfterRpcError
    /\ failed' = TRUE
    /\ UNCHANGED <<should_batch, oracle_history, oracle_unspent, script_iter, scripts,
                   responses, pos, used_scripts, utxos, sweep, n_next, n_history, n_unspent,
                   probed, discovered, unapplied, run, first_utxos, dvars, tvars>>

\* ------------------------------------------------------------ the sweep
\* Byte strings are modelled by their lengths.
varint_len(number) == IF number <= 252 THEN 1 ELSE IF number <= 65535 THEN 3 ELSE 5

\* len(build_output_script_from_address(address)); 0 for None
output_script_len(address) ==
    CASE address = "p2pkh" -> 25
      [] address = "p2sh" -> 23
      [] address = "p2wpkh" -> 22
      [] OTHER -> 0

build_input_script_len(script_type, sig) ==
    CASE script_type = "LEGACY" -> 1 + sig + 1 + PubkeyLen
      [] script_type = "COMPAT" -> 1 + 22
      [] OTHER -> 0

\* the witness left empty for a COMPAT input
M_build_witness(script_type, sig) ==
    IF script_type = "SEGWIT" THEN <<sig, PubkeyLen>> ELSE <<>>

build_witness(script_type, sig) ==
    IF script_type = "LEGACY" THEN <<>> ELSE <<sig, PubkeyLen>>

RECURSIVE SumSeq(_, _)
SumSeq(f, k) == IF k > Len(f) THEN 0 ELSE f[k] + SumSeq(f, k + 1)

\* A serialization is the sequence of its fields: f the field, n its length
\* in bytes, v its value where the code fixes one (0 otherwise), k the input or
\* output the field belongs to (0 for none).
Field(f, n, v, k) == [f |-> f, n |-> n, v |-> v, k |-> k]

\* _varint(number), as a field
varint(f, number, k) == Field(f, varint_len(number), number, k)

RECURSIVE Flatten(_, _)
\* tx.extend(...) for each element of a loop
Flatten(parts, k) == IF k > Len(parts) THEN <<>> ELSE parts[k] \o Flatten(parts, k + 1)

\* any(len(witness) > 0 for _, _, witness in inputs)
AnyWitness(inputs) == \E k \in 1..Len(inputs) : Len(inputs[k].witness) > 0

\* segwit, with the inputs' witnesses not looked at
M_IsSegwit(inputs, include_witness) == include_witness

\* segwit = include_witness and any(...) (transactions.py 97)
IsSegwit(inputs, include_witness) == include_witness /\ AnyWitness(inputs)

\* the witness of one input (transactions.py 124-127)
WitnessFields(inputs, k) ==
    <<varint("witness_count", Len(inputs[k].witness), k)>>
    \o Flatten([j \in 1..Len(inputs[k].witness) |->
                   <<varint("witness_item_len", inputs[k].witness[j], k),
                     Field("witness_item", inputs[k].witness[j], 0, k)>>], 1)

\* _serialize_tx(inputs, outputs, include_witness); an output is
\* <<amount, length of the script>>
serialize_tx(inputs, outputs, include_witness) ==
    LET segwit == IsSegwit(inputs, include_witness)
    IN <<Field("version", 4, VERSION, 0)>>
       \o (IF segwit
           THEN <<Field("marker", 1, SEGWIT_MARKER, 0), Field("flag", 1, SEGWIT_FLAG, 0)>>
           ELSE <<>>)
       \o <<varint("input_count", Len(inputs), 0)>>
       \o Flatten([k \in 1..Len(inputs) |->
                      <<Field("txid", 32, 0, k),
                        Field("output_index", 4, 0, k),
                        varint("script_len", inputs[k].script, k),
                        Field("script", inputs[k].script, 0, k),
                        Field("sequence", 4, 0, k)>>], 1)
       \o <<varint("output_count", Len(outputs), 0)>>
       \o Flatten([k \in 1..Len(outputs) |->
                      <<Field("amount", 8, outputs[k][1], k),
                        varint("script_len", outputs[k][2], k),
                        Field("script", outputs[k][2], 0, k)>>], 1)
       \o (IF segwit THEN Flatten([k \in 1..Len(inputs) |-> WitnessFields(inputs, k)], 1)
           ELSE <<>>)
       \o <<Field("locktime", 4, 0, 0)>>

\* len(bytes)
ByteLen(fields) == SumSeq([k \in 1..Len(fields) |-> fields[k].n], 1)

\* len(_serialize_tx(inputs, outputs, include_witness))
serialize_tx_len(inputs, outputs, include_witness) ==
    ByteLen(serialize_tx(inputs, outputs, include_witness))

\* the dust test with the limit itself refused
M_IsDust(amount_in_sat) == amount_in_sat <= NON_SEGWIT_DUST

\* amount_in_sat < NON_SEGWIT_DUST (transactions.py 33)
IsDust(amount_in_sat) == amount_in_sat < NON_SEGWIT_DUST

\* what one iteration of the signing loop asks of the master key and of the
\* signer (transactions.py 44, 59, 60)
SigningCalls(k) == <<<<"get_pubkey_from_path", k>>, <<"get_privkey_from_path", k>>, <<"sign", k>>>>

\* Transaction(master_key, utxos, address, amount_in_sat), signatures of the
\* given lengths; calls lists the key derivations and signatures made
Transaction(us, address, amount_in_sat, sigs) ==
    IF output_script_len(address) = 0 THEN [ok |-> FALSE, error |-> "address", calls |-> <<>>]
    ELSE IF IsDust(amount_in_sat) THEN [ok |-> FALSE, error |-> "dust", calls |-> <<>>]
    ELSE [ok |-> TRUE, amount |-> amount_in_sat, out_len |-> output_script_len(address),
          outputs |-> <<<<amount_in_sat, output_script_len(address)>>>>,
          inputs |-> [k \in 1..Len(us) |->
                         [script_type |-> us[k].script_type,
                          script |-> build_input_script_len(us[k].script_type, sigs[k]),
                          witness |-> build_witness(us[k].script_type, sigs[k])]],
          calls |-> Flatten([k \in 1..Len(us) |-> SigningCalls(k)], 1)]

\* the virtual size with the two weights exchanged
M_virtual_size(tx) ==
    LET witness_tx == serialize_tx(tx.inputs, tx.outputs, TRUE)
        non_witness_tx == serialize_tx(tx.inputs, tx.outputs, FALSE)
    IN (ByteLen(non_witness_tx) + 3 * ByteLen(witness_tx)) \div 4

virtual_size(tx) ==
    LET witness_tx == serialize_tx(tx.inputs, tx.outputs, TRUE)
        non_witness_tx == serialize_tx(tx.inputs, tx.outputs, FALSE)
    IN (3 * ByteLen(non_witness_tx) + ByteLen(witness_tx)) \div 4

to_bytes(tx) == serialize_tx(tx.inputs, tx.outputs, TRUE)

balance == SumSeq([k \in 1..Len(utxos) |-> utxos[k].amount_in_sat], 1)

SUnchanged == UNCHANGED <<should_batch, oracle_history, oracle_unspent, script_iter, scripts,
                          responses, pos, used_scripts, utxos, n_next, n_history, n_unspent,
                          probed, discovered, unapplied, failed, run, first_utxos, dvars, tvars>>

\* scan_master_key has returned (indy.py 130-135)
CheckUtxos ==
    /\ pc = "scan_done"
    /\ pc' = IF Len(utxos) = 0 THEN "exit" ELSE "check_key"
    /\ UNCHANGED sweep
    /\ SUnchanged

\* indy.py 140-143
CheckKey ==
    /\ pc = "check_key"
    /\ \E master_privkey \in BOOLEAN :
          /\ sweep' = [sweep EXCEPT !.master_privkey = master_privkey]
          /\ pc' = IF master_privkey THEN "check_address" ELSE "exit"
    /\ SUnchanged

\* indy.py 145-148
CheckAddress ==
    /\ pc = "check_address"
    /\ \E address \in {"none", "invalid", "p2wpkh"} :
          /\ sweep' = [sweep EXCEPT !.address = address]
          /\ pc' = IF address = "none" THEN "exit" ELSE "check_fee"
    /\ SUnchanged

\* indy.py 150; -1 is no --fee-rate
CheckFee ==
    /\ pc = "check_fee"
    /\ \E fee_rate \in {-1, 1, MaxFeeRate} :
          /\ sweep' = [sweep EXCEPT !.fee_rate = fee_rate, !.fee_rate_arg = fee_rate]
          /\ pc' = IF fee_rate = -1 THEN "estimate_fee" ELSE "build"
    /\ SUnchanged

\* the answers of blockchain.estimatefee, in satoshis per kilobyte
\* (fee_rate_in_btc_per_kb * 10 ** 8); -1 is the answer -1
FeeEstimates == {-1, 0, 1024, 1024 * MaxFeeRate + 512}

\* the answer -1 taken for a rate
M_FeeUnavailable(estimate) == FALSE

\* fee_rate_in_btc_per_kb == -1 (indy.py 153)
FeeUnavailable(estimate) == estimate = -1

\* indy.py 151-158: the estimate is -1, or converts to a rate, or the RPC raises
EstimateFee ==
    /\ pc = "estimate_fee"
    /\ \/ \E estimate \in FeeEstimates :
             IF FeeUnavailable(estimate)
             THEN /\ sweep' = [sweep EXCEPT !.estimate_asked = TRUE, !.estimate = estimate]
                  /\ pc' = "exit"
             ELSE /\ sweep' = [sweep EXCEPT !.estimate_asked = TRUE, !.estimate = estimate,
                                            !.fee_rate = estimate \div 1024]
                  /\ pc' = "build"
       \/ pc' = "rpc_failed" /\ UNCHANGED sweep
    /\ SUnchanged

\* the fee taken per kilobyte
M_Fee(tx_without_fee, fee_rate) == (virtual_size(tx_without_fee) * fee_rate) \div 1024

\* fee = tx_without_fee.virtual_size() * fee_rate (indy.py 163)
Fee(tx_without_fee, fee_rate) == virtual_size(tx_without_fee) * fee_rate

\* indy.py 162-175; a ValueError of Transaction leaves find_utxos
Build ==
    /\ pc = "build"
    /\ \E sig1 \in MinSigLen..MaxSigLen, sig2 \in MinSigLen..MaxSigLen, should_broadcast \in BOOLEAN :
          LET tx_without_fee == Transaction(utxos, sweep.address, balance, [k \in 1..Len(utxos) |-> sig1])
              fee == Fee(tx_without_fee, sweep.fee_rate)
              tx == Transaction(utxos, sweep.address, balance - fee, [k \in 1..Len(utxos) |-> sig2])
          IN IF ~tx_without_fee.ok
             THEN /\ pc' = "tx_error"
                  /\ sweep' = [sweep EXCEPT !.tx_without_fee = tx_without_fee,
                                            !.error = tx_without_fee.error]
             ELSE IF ~tx.ok
             THEN /\ pc' = "tx_error"
                  /\ sweep' = [sweep EXCEPT !.tx_without_fee = tx_without_fee, !.fee = fee,
                                            !.error = tx.error]
             ELSE /\ sweep' = [sweep EXCEPT !.tx_without_fee = tx_without_fee, !.fee = fee,
                                            !.tx = tx, !.should_broadcast = should_broadcast]
                  /\ pc' = IF should_broadcast THEN "broadcast" ELSE "exit"
    /\ SUnchanged

\* indy.py 177-184: the broadcast RPC answers or is rejected
Broadcast ==
    /\ pc = "broadcast"
    /\ sweep' = [sweep EXCEPT !.broadcast = @ + 1]
    /\ pc' = "exit"
    /\ SUnchanged

Next ==
    \/ NextScript \/ GetHistory \/ MarkUsed \/ ListUnspent \/ RpcFails
    \/ CheckUtxos \/ CheckKey \/ CheckAddress \/ CheckFee \/ EstimateFee \/ Build \/ Broadcast

Spec == Init /\ [][Next]_vars

\* ------------------------------------------------------------------ SpecN
\* The runs of find_utxos on wallets with at most NarrowMaxHits used scripts.
\* the descriptor of the same path as FirstIndexOnly and of type SEGWIT
SegwitIndexOnly ==
    CHOOSE id \in 1..Len(RegistryPairs) :
        /\ RegistryPairs[id].path = RegistryPairs[FirstIndexOnly].path
        /\ RegistryPairs[id].type = "SEGWIT"

InitN ==
    ScanInit(0..NarrowMaxAddressGap, 0..NarrowMaxAccountGap,
             ScriptsOf({1, SegwitIndexOnly}, NarrowOracleMaxIndex, NarrowOracleMaxAccount),
             NarrowMaxHits)

SpecN == InitN /\ [][Next]_vars

\* ------------------------------------------------------------------ SpecP
\* The runs of find_utxos on wallets with up to PairMaxHits used scripts, so
\* that one listunspent batch holds several requests.
InitP ==
    ScanInit(0..PairMaxGap, 0..PairMaxGap,
             ScriptsOf({1, SegwitIndexOnly}, PairOracleMax, PairOracleMax),
             PairMaxHits)

SpecP == InitP /\ [][Next]_vars

\* ------------------------------------------------------------------ SpecB
\* Two runs on one oracle with the same gaps: without batching, then with it.
InitB == Init /\ should_batch = FALSE

\* main is run again, batching enabled (indy.py 66-76)
Rerun ==
    /\ pc = "scan_done"
    /\ run = 1
    /\ first_utxos' = {utxos[k] : k \in 1..Len(utxos)}
    /\ run' = 2
    /\ should_batch' = TRUE
    /\ script_iter' = ScriptIterator(script_iter.objects[1].address_gap,
                                     script_iter.objects[1].account_gap)
    /\ pc' = "pull"
    /\ scripts' = <<>>
    /\ responses' = <<>>
    /\ pos' = 0
    /\ used_scripts' = <<>>
    /\ utxos' = <<>>
    /\ n_next' = 0
    /\ n_history' = 0
    /\ n_unspent' = 0
    /\ probed' = {}
    /\ discovered' = {}
    /\ unapplied' = 0
    /\ UNCHANGED <<oracle_history, oracle_unspent, sweep, failed, dvars, tvars>>

NextB == NextScript \/ GetHistory \/ MarkUsed \/ ListUnspent \/ Rerun

SpecB == InitB /\ [][NextB]_vars

\* =================================================================== SpecT
\* One Transaction: the constructor, then virtual_size() and to_bytes().
ScriptTypes == {"LEGACY", "COMPAT", "SEGWIT"}

\* the lists of UTXOs a Transaction is built on
TxUtxos ==
    UNION { [1..n -> [script_type : ScriptTypes, amount_in_sat : {OracleValue}]] : n \in 0..MaxInputs }

\* destination addresses: one of each kind that decodes, one that does not
TxAddresses == {"p2pkh", "p2sh", "p2wpkh", "invalid"}

TxAmounts ==
    {-1, 0, NON_SEGWIT_DUST - 1, NON_SEGWIT_DUST, NON_SEGWIT_DUST + 1, MaxInputs * OracleValue}

InitT ==
    /\ \E us \in TxUtxos, address \in TxAddresses, amount_in_sat \in TxAmounts :
          \E sigs \in [1..Len(us) -> MinSigLen..MaxSigLen] :
              transaction = [pc |-> "new", utxos |-> us, address |-> address,
                             amount_in_sat |-> amount_in_sat, sigs |-> sigs,
                             self |-> <<>>, vsize |-> Unset,
                             witness_tx |-> <<>>, non_witness_tx |-> <<>>, bytes |-> <<>>]
    /\ SIdle
    /\ it = <<>>
    /\ d_out = NoScript
    /\ d_calls = 0
    /\ d_used_calls = 0
    /\ d_emitted = 0
    /\ d_walk = <<>>
    /\ d_cells = <<>>
    /\ d_marked = {}

\* transactions.Transaction(master_key, utxos, address, amount_in_sat)
T_Construct ==
    /\ transaction.pc = "new"
    /\ LET self == Transaction(transaction.utxos, transaction.address,
                               transaction.amount_in_sat, transaction.sigs)
       IN transaction' = [transaction EXCEPT !.self = self,
                                             !.pc = IF self.ok THEN "built" ELSE "raised"]
    /\ UNCHANGED <<dvars, svars>>

\* tx.virtual_size()
T_VirtualSize ==
    /\ transaction.pc = "built"
    /\ transaction.vsize = Unset
    /\ transaction' =
          [transaction EXCEPT
              !.vsize = virtual_size(transaction.self),
              !.witness_tx = serialize_tx(transaction.self.inputs, transaction.self.outputs, TRUE),
              !.non_witness_tx = serialize_tx(transaction.self.inputs, transaction.self.outputs, FALSE)]
    /\ UNCHANGED <<dvars, svars>>

\* tx.to_bytes()
T_ToBytes ==
    /\ transaction.pc = "built"
    /\ transaction.bytes = <<>>
    /\ transaction' = [transaction EXCEPT !.bytes = to_bytes(transaction.self)]
    /\ UNCHANGED <<dvars, svars>>

NextT == T_Construct \/ T_VirtualSize \/ T_ToBytes

SpecT == InitT /\ [][NextT]_vars

\* ================================================================== claims

\* ---- SpecD

\* (max_index+1)*(max_account+1) as the claims state it
InitialCells(d) ==
    LET max_index == IF has_variable_index(d.path) THEN d.address_gap ELSE 0
        max_account == IF has_variable_account(d.path) THEN d.account_gap ELSE 0
    IN (max_index + 1) * (max_account + 1)

\* C1: as long as found_used_script was never called, the first
\* (max_index+1)*(max_account+1) calls of next_script return a script and every
\* later call returns None; a path with neither placeholder returns one script,
\* the one at (0, 0).
C1_ExactCount ==
    d_used_calls = 0 =>
        /\ d_emitted = Min(d_calls, InitialCells(it))
        /\ d_calls > 0 => (d_out.ok <=> d_calls <= InitialCells(it))
        /\ (~has_variable_index(it.path) /\ ~has_variable_account(it.path) /\ d_calls >= 1) =>
              /\ d_emitted = 1
              /\ d_calls = 1 => (d_out.index = 0 /\ d_out.account = 0)

\* the whole rectangle of a two-placeholder path was returned and None followed
C1_Witness ==
    /\ d_used_calls = 0
    /\ has_variable_index(it.path) /\ has_variable_account(it.path)
    /\ it.address_gap >= 2 /\ it.account_gap >= 1
    /\ d_emitted = InitialCells(it)
    /\ d_calls >= d_emitted + 2
    /\ ~d_out.ok

\* (index+account, account) of a before that of b
DiagonalBefore(a, b) ==
    \/ a[1] + a[2] < b[1] + b[2]
    \/ a[1] + a[2] = b[1] + b[2] /\ a[2] < b[2]

\* C4: under every sequence of next_script and found_used_script calls, each
\* cell returned from the cursor walk comes strictly after the previous one in
\* the order (index+account, account).
C4_DiagonalOrder ==
    [][ (d_calls' # d_calls /\ d_out'.ok /\ d_out'.from = "cursor" /\ d_walk # <<>>)
            => DiagonalBefore(d_walk, <<d_out'.index, d_out'.account>>) ]_vars

\* the walk goes down a diagonal after a found_used_script call
C4_Witness ==
    /\ d_used_calls > 0
    /\ d_out.ok /\ d_out.from = "cursor"
    /\ d_out.index > 0 /\ d_out.account > 1
    /\ d_walk = <<d_out.index, d_out.account>>

IsPrefix(p, q) == Len(p) <= Len(q) /\ \A k \in 1..Len(p) : p[k] = q[k]

\* the cells one found_used_script call appended to extra_indices
AddedIndices == SubSeq(it'.extra_indices, Len(it.extra_indices) + 1, Len(it'.extra_indices))

\* C5: a found_used_script call appends at most address_gap cells to
\* extra_indices, each with index > max_index and index in
\* [last_index+1, last_index+address_gap]; and as long as found_used_script was
\* never called every returned cell is in [0..address_gap] x [0..account_gap].
C5_CoverageBound ==
    /\ [](d_used_calls = 0 /\ d_out.ok =>
            d_out.index \in 0..it.address_gap /\ d_out.account \in 0..it.account_gap)
    /\ [][ d_used_calls' # d_used_calls =>
             /\ IsPrefix(it.extra_indices, it'.extra_indices)
             /\ Len(AddedIndices) <= it.address_gap
             /\ \A k \in 1..Len(AddedIndices) :
                   /\ AddedIndices[k][1] > it.max_index
                   /\ AddedIndices[k][1] \in (it.last_index + 1)..(it.last_index + it.address_gap) ]_vars

\* a call has just appended address_gap cells, all beyond max_index
C5_Witness ==
    /\ d_used_calls = 1
    /\ it.address_gap >= 2
    /\ it.last_index = it.max_index
    /\ Len(it.extra_indices) = it.address_gap

\* ---- Spec

address_gap == script_iter.objects[1].address_gap
account_gap == script_iter.objects[1].account_gap

\* C2 (as the claim states it): exploration is bounded. When found_used_script
\* is called after each emission of a used script (a scan without batching) and
\* h scripts have a history, the scan probes at most the cells of the initial
\* rectangles plus, for each of the h scripts, the cells one gap expansion can
\* add (address_gap index cells and account_gap+1 rows of max_index+1 cells);
\* past that number next_script has returned None and the scan has returned.
ProbeBound ==
    6 * (address_gap + 1) * (account_gap + 1) + 21 * (address_gap + 1)
    + Cardinality(oracle_history) * (address_gap + (account_gap + 1) * (address_gap + 1))

C2_BoundedExploration == ~should_batch => n_history <= ProbeBound

\* the used index k of row a of descriptor id is linked to the initial window
\* by used indices at most address_gap apart
RECURSIVE Chain(_, _, _)
Chain(id, k, a) ==
    /\ script_at(script_iter.objects[id], k, a) \in oracle_history
    /\ \/ k <= address_gap
       \/ \E j \in 0..(k - 1) : k - j <= address_gap /\ Chain(id, j, a)

\* C3 (as the claim states it): after a scan without batching, a used script at
\* index k of a row of the initial rectangle has been emitted and reported used
\* exactly if a chain of used indices of that row, at most address_gap apart,
\* links it to the initial window [0, address_gap].
C3_ChainDiscovery ==
    (pc = "scan_done" /\ ~should_batch) =>
        \A k \in 0..OracleMaxIndex, a \in 0..account_gap :
            script_at(script_iter.objects[1], k, a) \in oracle_history =>
                (<<1, k, a>> \in discovered <=> Chain(1, k, a))

\* C6 (as the claim states it): on one oracle and with the same gaps, the scan
\* with batch size 100 returns the UTXOs the scan with batch size 1 returned.
C6_SameUtxos ==
    (run = 2 /\ pc = "scan_done") => {utxos[k] : k \in 1..Len(utxos)} = first_utxos

\* the cells of the initial rectangles of the registry
InitialRectangles ==
    {<<id, i, a>> : id \in 1..6, i \in 0..address_gap, a \in 0..account_gap}
    \cup {<<id, i, 0>> : id \in 7..27, i \in 0..address_gap}

\* C7: when no script has a history, the scan returns no UTXO, sends no
\* listunspent request and probes each cell of each of the 27 (template, type)
\* pairs exactly once: (address_gap+1)*(account_gap+1) cells for the 6 pairs
\* with both placeholders, address_gap+1 for the 21 with the index only.
C7_EmptyWallet ==
    (pc = "scan_done" /\ oracle_history = {}) =>
        /\ utxos = <<>>
        /\ n_unspent = 0
        /\ probed = InitialRectangles
        /\ n_history = 6 * (address_gap + 1) * (account_gap + 1) + 21 * (address_gap + 1)

\* a batched scan of an empty wallet that needed more than one batch is done
C7_Witness ==
    /\ pc = "scan_done"
    /\ oracle_history = {}
    /\ should_batch
    /\ n_history > MAX_BATCH_SIZE

\* C8: next_script is never called while a hit of the probed batch has not
\* been marked used.
C8_MarksBeforePull == [][n_next' # n_next => unapplied = 0]_vars

\* the next batch is being pulled after the hit of a batch was marked
C8_Witness ==
    /\ should_batch
    /\ pc = "pull"
    /\ Len(scripts) >= 1
    /\ discovered # {}
    /\ unapplied = 0

\* C9 (as the claim states it): a next_script call made while last_descriptor
\* has priority scripts returns a cell of last_descriptor and leaves the
\* round-robin cursor where it is.
C9_PriorityDrain ==
    [][ (n_next' # n_next /\ TakesPriority(script_iter)) =>
            /\ Len(scripts') = Len(scripts) + 1
            /\ scripts'[Len(scripts')].desc = script_iter.last_descriptor
            /\ script_iter'.index = script_iter.index ]_vars

\* C10: once an RPC of the scan has failed, the run is over: it stays at the
\* failure, the iterator is not called again, and neither the UTXO list nor
\* the sweep changes (no transaction is built, nothing is broadcast).
C10_FailureAborts ==
    /\ [](failed => pc = "rpc_failed" /\ sweep = NotRead)
    /\ [][failed => UNCHANGED <<script_iter, n_next, utxos, sweep, pc>>]_vars

\* listunspent failed after an earlier batch had found a UTXO
C10_Witness ==
    /\ failed
    /\ pc = "rpc_failed"
    /\ utxos # <<>>
    /\ used_scripts # <<>>

\* ---- SpecT

\* the destination address decodes to an output script
Decodes(address) == address \in {"p2pkh", "p2sh", "p2wpkh"}

\* C11: the constructor raises, with no key derived and no input signed, when
\* the address does not decode or when amount_in_sat < 546; the address is
\* checked first (an undecodable address is the error reported also when the
\* amount is dust), and with an address that decodes an amount of 546 or more
\* is accepted.
C11_ConstructionFails ==
    transaction # <<>> /\ transaction.pc # "new" =>
        /\ (~Decodes(transaction.address) \/ transaction.amount_in_sat < 546) =>
              /\ transaction.pc = "raised"
              /\ transaction.self.calls = <<>>
        /\ ~Decodes(transaction.address) => transaction.self.error = "address"
        /\ (Decodes(transaction.address) /\ transaction.amount_in_sat < 546) =>
              transaction.self.error = "dust"
        /\ (Decodes(transaction.address) /\ transaction.amount_in_sat >= 546) =>
              transaction.pc # "raised"

\* an amount of 545 on two inputs was refused as dust
C11_Witness ==
    /\ transaction # <<>>
    /\ transaction.pc = "raised"
    /\ transaction.self.error = "dust"
    /\ transaction.amount_in_sat = 545
    /\ Len(transaction.utxos) = 2

\* the transaction was built and both virtual_size() and to_bytes() were called
Measured ==
    /\ transaction # <<>>
    /\ transaction.pc = "built"
    /\ transaction.vsize # Unset
    /\ transaction.bytes # <<>>

HasSegwitInput == \E k \in 1..Len(transaction.utxos) : transaction.utxos[k].script_type # "LEGACY"

\* 3*non_witness_size + witness_size
Weight == 3 * ByteLen(transaction.non_witness_tx) + ByteLen(transaction.bytes)

\* C14 (as the claim states it): with at least one COMPAT or SEGWIT input,
\* 4*virtual_size() differs from 3*non_witness_size + witness_size by at most
\* one.
C14_WithinOne ==
    (Measured /\ HasSegwitInput) =>
        /\ 4 * transaction.vsize - Weight <= 1
        /\ Weight - 4 * transaction.vsize <= 1

\* C14 (amended): with at least one COMPAT or SEGWIT input, 4*virtual_size()
\* is at most 3*non_witness_size + witness_size and less than it by at most
\* three.
C14_WithinThree ==
    (Measured /\ HasSegwitInput) =>
        /\ 4 * transaction.vsize <= Weight
        /\ Weight - 4 * transaction.vsize <= 3

\* a transaction with a segwit input whose weight is three more than 4*vsize
C14_Witness ==
    /\ Measured
    /\ HasSegwitInput
    /\ Weight - 4 * transaction.vsize = 3

WitnessFieldNames == {"marker", "flag", "witness_count", "witness_item_len", "witness_item"}

\* C15: when every input is LEGACY, virtual_size() is the length of
\* to_bytes(), and the serialization has no marker, no flag and no witness
\* field.
C15_LegacySize ==
    (Measured /\ ~HasSegwitInput) =>
        /\ transaction.vsize = ByteLen(transaction.bytes)
        /\ \A j \in 1..Len(transaction.bytes) : transaction.bytes[j].f \notin WitnessFieldNames

\* a transaction of three LEGACY inputs was measured
C15_Witness ==
    /\ Measured
    /\ ~HasSegwitInput
    /\ Len(transaction.utxos) = 3

\* the serialization starts with the version, then the bytes 00 01
HasMarkerAndFlag(ser) ==
    /\ Len(ser) >= 3
    /\ ser[1].f = "version"
    /\ ser[2].n = 1 /\ ser[2].v = 0 /\ ser[2].f = "marker"
    /\ ser[3].n = 1 /\ ser[3].v = 1 /\ ser[3].f = "flag"

\* the witness counts of a serialization, in the order they are written
WitnessCounts(ser) == SelectSeq(ser, LAMBDA x : x.f = "witness_count")

\* what the claim says of one serialization of the transaction
WitnessLayout(ser, include_witness) ==
    LET us == transaction.utxos
        counts == WitnessCounts(ser)
    IN /\ HasMarkerAndFlag(ser) <=> (include_witness /\ HasSegwitInput)
       /\ (\E j \in 1..Len(ser) : ser[j].f \in WitnessFieldNames)
             <=> (include_witness /\ HasSegwitInput)
       /\ (include_witness /\ HasSegwitInput) =>
             /\ Len(counts) = Len(us)
             /\ \A k \in 1..Len(us) :
                   /\ counts[k].k = k
                   /\ counts[k].v = IF us[k].script_type = "LEGACY" THEN 0 ELSE 2
             \* the witness section is the end of the serialization but for the
             \* locktime, and the items of an input are its signature and its key
             /\ \A j \in 1..Len(ser) :
                   ser[j].f = "witness_item" =>
                       /\ ser[j - 1].f = "witness_item_len" /\ ser[j - 1].v = ser[j].n
                       /\ ser[j].n \in {transaction.sigs[ser[j].k], PubkeyLen}

\* C16: a serialization carries the marker and flag (00 01 after the version)
\* and a witness section exactly if witnesses are included and some input has
\* a non-empty witness; then the witness section has one entry per input, in
\* input order, of 0 items for a LEGACY input and of 2 items (signature,
\* public key) for a COMPAT or SEGWIT input.
C16_WitnessSection ==
    Measured =>
        /\ WitnessLayout(transaction.bytes, TRUE)
        /\ WitnessLayout(transaction.witness_tx, TRUE)
        /\ WitnessLayout(transaction.non_witness_tx, FALSE)

\* one input of each type, in the order LEGACY, COMPAT, SEGWIT, was serialized
C16_Witness ==
    /\ Measured
    /\ Len(transaction.utxos) = 3
    /\ transaction.utxos[1].script_type = "LEGACY"
    /\ transaction.utxos[2].script_type = "COMPAT"
    /\ transaction.utxos[3].script_type = "SEGWIT"

\* ---- SpecN: the sweep

\* the sweep part of find_utxos has called Transaction
BuildRan == sweep.tx_without_fee # <<>>

\* C12: the broadcast RPC is issued only when the scan returned a UTXO, the
\* master key holds a private key, an address was given, a fee rate is known
\* (given with --fee-rate, or estimated with an answer other than -1), the
\* transaction was built and --broadcast was given; and at most once in a run.
C12_BroadcastGuard ==
    /\ sweep.broadcast <= 1
    /\ (pc = "broadcast" \/ sweep.broadcast > 0) =>
          /\ Len(utxos) >= 1
          /\ sweep.master_privkey
          /\ sweep.address \notin {"none", "not read"}
          /\ \/ sweep.fee_rate_arg # -1 /\ sweep.fee_rate = sweep.fee_rate_arg
             \/ sweep.estimate_asked /\ sweep.estimate # -1
          /\ sweep.tx # <<>> /\ sweep.tx.ok
          /\ sweep.should_broadcast

\* a transaction whose fee rate was estimated has been broadcast
C12_Witness ==
    /\ sweep.broadcast = 1
    /\ pc = "exit"
    /\ sweep.estimate_asked

\* balance - fee_rate * virtual size of the transaction built on the balance
SweepDifference == balance - sweep.fee_rate * virtual_size(sweep.tx_without_fee)

\* C13: the output amount of the sweep transaction is the sum of the amounts
\* of the UTXOs found minus fee_rate times the virtual size of the transaction
\* built with that sum as its amount; when the difference is below 546 the
\* sweep fails as dust.
C13_SweepAmount ==
    (BuildRan /\ sweep.tx_without_fee.ok) =>
        /\ sweep.tx_without_fee.amount = balance
        /\ Len(sweep.tx_without_fee.inputs) = Len(utxos)
        /\ SweepDifference >= 546 =>
              /\ sweep.tx # <<>> /\ sweep.tx.ok
              /\ sweep.tx.amount = SweepDifference
              /\ Len(sweep.tx.inputs) = Len(utxos)
        /\ SweepDifference < 546 =>
              /\ pc = "tx_error"
              /\ sweep.error = "dust"
              /\ sweep.tx = <<>>

\* a sweep with a fee was built
C13_Witness ==
    /\ BuildRan
    /\ sweep.tx # <<>>
    /\ sweep.fee > 0
    /\ sweep.tx.amount = balance - sweep.fee

\* ---- SpecD, the queues

\* C17: after any next_script call that returns a cell, whether it came from
\* the cursor walk, from extra_indices or from extra_accounts, last_index and
\* last_account are the index and the account of the returned cell.
C17_LastIsReturned ==
    [][ (d_calls' # d_calls /\ d_out'.ok) =>
            it'.last_index = d_out'.index /\ it'.last_account = d_out'.account ]_vars

\* C18: every cell a found_used_script call appends to extra_indices has the
\* account last_account, wherever the cursor stands, and a cell already in the
\* queue is not appended again.
C18_QueuedAccount ==
    [][ d_used_calls' # d_used_calls =>
          \A k \in 1..Len(AddedIndices) :
              /\ AddedIndices[k][2] = it.last_account
              /\ ~InQueue(it.extra_indices, AddedIndices[k]) ]_vars

\* the cells one found_used_script call appended to extra_accounts
AddedAccounts == SubSeq(it'.extra_accounts, Len(it.extra_accounts) + 1, Len(it'.extra_accounts))

RECURSIVE WalkCells(_)
\* the cells the cursor walk returns from the cursor of d on, in d's rectangle
WalkCells(d) ==
    IF CursorOutside(d) THEN {} ELSE {<<d.index, d.account>>} \cup WalkCells(AdvanceCursor(d))

\* the cells of row r of a found_used_script call's queue, in the queue's order
AddedInRow(r) == SelectSeq(AddedAccounts, LAMBDA cell : cell[2] = r)

\* C19: after found_used_script, max_account > last_account + account_gap;
\* for each row r the call added, the cells it appended to extra_accounts are
\* (0, r), (1, r), ... below current_diagonal - r in ascending order, with
\* current_diagonal the cursor's index + account; and they are exactly the
\* cells of row r the cursor walk does not visit afterwards.
C19_NewRows ==
    [][ d_used_calls' # d_used_calls =>
          LET current_diagonal == it.index + it.account
              rows == (it.max_account + 1)..it'.max_account
          IN /\ it'.max_account > it'.last_account + it'.account_gap
             /\ IsPrefix(it.extra_accounts, it'.extra_accounts)
             /\ \A k \in 1..Len(AddedAccounts) : AddedAccounts[k][2] \in rows
             /\ \A r \in rows :
                   /\ AddedInRow(r) = [i \in 1..Max(0, current_diagonal - r) |-> <<i - 1, r>>]
                   /\ {AddedInRow(r)[k] : k \in 1..Len(AddedInRow(r))}
                        = {<<i, r>> : i \in 0..it'.max_index} \ WalkCells(it') ]_vars

\* a call has added two rows and queued cells of the first behind the cursor
C19_Witness ==
    /\ d_used_calls = 1
    /\ it.max_account = it.account_gap + 2
    /\ Len(it.extra_accounts) >= 2
    /\ it.extra_accounts[1][2] = it.account_gap + 1

\* the cells returned so far
Returned == {d_cells[k] : k \in 1..Len(d_cells)}

\* the last next_script call returned None
ReturnedNone == d_calls > 0 /\ ~d_out.ok

\* C20: on a path with a variable account, when found_used_script was called
\* right after the return of a cell of account A, every cell (i, A') with
\* A < A' <= A + account_gap + 1 and 0 <= i <= max_index has been returned by
\* the time next_script returns None.
C20_AccountGapCoverage ==
    (has_variable_account(it.path) /\ ReturnedNone) =>
        \A cell \in d_marked :
            \A account \in (cell[2] + 1)..(cell[2] + it.account_gap + 1), i \in 0..it.max_index :
                <<i, account>> \in Returned

\* ---- Spec, the batch and the global iterator

\* C21: for every candidate of a batch whose history is non-empty, the gap
\* expansion is applied to the descriptor that returned the candidate and is
\* computed from the candidate's own index and account, whatever the batch
\* size; no other descriptor changes.
C21_ExpansionOfCandidate ==
    [][ (pc = "mark" /\ pos' # pos /\ responses[pos]) =>
          LET c == scripts[pos]
              d == script_iter.objects[c.desc]
          IN /\ script_iter.last_descriptor = c.desc
             /\ d.last_index = c.index
             /\ d.last_account = c.account
             /\ \A id \in DOMAIN script_iter.objects :
                   id # c.desc => script_iter'.objects[id] = script_iter.objects[id] ]_vars

\* no descriptor has priority scripts
NoPriority(s) == \A id \in DOMAIN s.objects : ~has_priority_scripts(s.objects[id])

\* the list of descriptors read cyclically from the cursor
Rotation(s) ==
    SubSeq(s.descriptors, s.index + 1, Len(s.descriptors)) \o SubSeq(s.descriptors, 1, s.index)

\* the descriptor has a next script
HasNext(s, id) == ~CursorOutside(s.objects[id]) \/ s.objects[id].extra_accounts # <<>>

\* the position of a descriptor in a list without repetition
PositionOf(list, id) == CHOOSE k \in 1..Len(list) : list[k] = id

\* C22: when no descriptor has priority scripts, ScriptIterator.next_script
\* serves the remaining descriptors cyclically in registry order: the call
\* returns the script of the first descriptor, from the cursor on, that has
\* one; the descriptors before it, which returned None, are removed and the
\* others keep their order; the cursor then stands on the cyclic successor of
\* the descriptor served; the cursor stays in [0, len(descriptors)) while the
\* list is not empty; and the call returns None only when the list is empty.
C22_RoundRobin ==
    /\ [](/\ \A k \in 1..(Len(script_iter.descriptors) - 1) :
                 script_iter.descriptors[k] < script_iter.descriptors[k + 1]
          /\ Len(script_iter.descriptors) > 0 =>
                 script_iter.index \in 0..(Len(script_iter.descriptors) - 1))
    /\ [][ n_next' # n_next =>
             /\ scripts' = scripts => script_iter'.descriptors = <<>>
             /\ (NoPriority(script_iter) /\ script_iter.descriptors # <<>>) =>
                   LET rot == Rotation(script_iter)
                       live == {k \in 1..Len(rot) : HasNext(script_iter, rot[k])}
                   IN IF live = {}
                      THEN scripts' = scripts
                      ELSE LET first == CHOOSE k \in live : \A j \in live : k <= j
                               removed == {rot[j] : j \in 1..(first - 1)}
                               rest == SelectSeq(script_iter.descriptors,
                                                 LAMBDA id : id \notin removed)
                               served == PositionOf(rest, rot[first])
                           IN /\ Len(scripts') = Len(scripts) + 1
                              /\ scripts'[Len(scripts')].desc = rot[first]
                              /\ script_iter'.descriptors = rest
                              /\ script_iter'.index = served % Len(rest) ]_vars

\* descriptors have been removed while others remain, and the call that
\* removed them has served their successor
C22_Witness ==
    /\ NoPriority(script_iter)
    /\ Len(script_iter.descriptors) > 1
    /\ Len(script_iter.descriptors) < Len(RegistryPairs)
    /\ script_iter.last_descriptor = script_iter.descriptors[1]
    /\ script_iter.index = 1
    /\ scripts # <<>>
    /\ scripts[Len(scripts)].desc = script_iter.last_descriptor

\* ---- SpecD, the order of service

\* the cell the last next_script call returned
ReturnedCell == <<d_out'.index, d_out'.account>>

\* the cursor of the walk has moved
CursorMoved == <<it'.index, it'.account>> # <<it.index, it.account>>

\* C23: in DescriptorScriptIterator.next_script the queues are served before
\* the cursor walk and extra_indices before extra_accounts: the cursor moves
\* only when both queues are empty, extra_accounts is popped only when
\* extra_indices is empty, each queue is served from its head, a call that
\* returns a cell takes it from exactly one of the three, and None is returned
\* only when both queues are empty and the cursor is outside the rectangle.
C23_QueuesFirst ==
    [][ d_calls' # d_calls =>
          /\ CursorMoved =>
                /\ it.extra_indices = <<>> /\ it.extra_accounts = <<>>
                /\ d_out'.ok /\ ReturnedCell = <<it.index, it.account>>
                /\ it.index <= it.max_index /\ it.account <= it.max_account
          /\ it'.extra_accounts # it.extra_accounts =>
                /\ it.extra_indices = <<>>
                /\ d_out'.ok /\ ReturnedCell = Head(it.extra_accounts)
                /\ it'.extra_accounts = Tail(it.extra_accounts)
          /\ it'.extra_indices # it.extra_indices =>
                /\ d_out'.ok /\ ReturnedCell = Head(it.extra_indices)
                /\ it'.extra_indices = Tail(it.extra_indices)
          /\ d_out'.ok =>
                Cardinality({q \in {"cursor", "extra_indices", "extra_accounts"} :
                                \/ q = "cursor" /\ CursorMoved
                                \/ q = "extra_indices" /\ it'.extra_indices # it.extra_indices
                                \/ q = "extra_accounts" /\ it'.extra_accounts # it.extra_accounts}) = 1
          /\ ~d_out'.ok =>
                /\ it.extra_indices = <<>> /\ it.extra_accounts = <<>>
                /\ (it.index > it.max_index \/ it.account > it.max_account)
                /\ it' = it ]_vars

\* a cell of extra_indices was returned while extra_accounts held cells and
\* the cursor stood inside the rectangle
C23_Witness ==
    /\ d_out.ok /\ d_out.from = "extra_indices"
    /\ it.extra_accounts # <<>>
    /\ ~CursorOutside(it)

\* ---- Spec, the progress total

\* the number of scripts ScriptIterator.next_script has returned
Emitted == IF pc \in {"pull", "get_history"} THEN n_history + Len(scripts) ELSE n_history

\* C24: ScriptIterator.total_scripts() is at every point of a scan at least
\* the number of scripts returned so far, and it never decreases.
C24_TotalScripts ==
    /\ [](pc \in {"pull", "get_history", "mark", "list_unspent", "scan_done"} =>
             total_scripts(script_iter) >= Emitted)
    /\ [][total_scripts(script_iter') >= total_scripts(script_iter)]_vars

\* ---- SpecP, the attribution of the unspent outputs

\* the script a Utxo record says it spends: its script type on its path
ScriptOf(u) == <<u.script_type, to_list(u.path, 0)>>

\* C25: every Utxo the scan returns is attributed to the candidate whose
\* listunspent response held it: the output is an unspent output of the script
\* of the Utxo's path and script type, that path is the template of a
\* candidate marked used with the candidate's account and index substituted
\* and the script type is the candidate's; and listunspent is requested only
\* for candidates whose history was not empty.
C25_Attribution ==
    /\ \A k \in 1..Len(utxos) :
          /\ utxos[k].txid \in oracle_unspent
          /\ utxos[k].txid = ScriptOf(utxos[k])
          /\ \E cell \in discovered :
                LET d == script_iter.objects[cell[1]]
                IN /\ utxos[k].path = with_index(with_account(d.path, cell[3]), cell[2])
                   /\ utxos[k].script_type = d.script_type
                   /\ \A j \in 1..Len(utxos[k].path) : utxos[k].path[j].var = "-"
    /\ \A k \in 1..Len(used_scripts) : program(used_scripts[k]) \in oracle_history
    /\ n_unspent <= n_history

\* one batch held two used scripts, the first without unspent outputs, and
\* the scan returned the output of the second
C25_Witness ==
    /\ pc = "scan_done"
    /\ should_batch
    /\ Cardinality(discovered) = 2
    /\ Len(utxos) = 1
    /\ \E cell \in discovered : cell[1] < SegwitIndexOnly
    /\ utxos[1].script_type = "SEGWIT"

\* ---- SpecD, the cells returned

\* every found_used_script call so far came right after the return of a cell,
\* one call per cell
CalledAfterEmission == d_used_calls = Cardinality(d_marked)

\* C26: when found_used_script is called only after an emission, a
\* descriptor never returns the same (index, account) cell twice.
C26_NoRepeatedCell ==
    CalledAfterEmission =>
        \A j, k \in 1..Len(d_cells) : d_cells[j] = d_cells[k] => j = k

\* the number of cells the descriptor will still return if found_used_script
\* is not called again
StillToReturn(d) ==
    Len(d.extra_indices) + Len(d.extra_accounts) + Cardinality(WalkCells(d))

\* C27: after every next_script or found_used_script call, total_scripts is
\* the number of cells returned plus the number of cells still to be returned
\* (those queued in extra_indices and extra_accounts and those the cursor
\* walk will still visit); when the descriptor returns None its total_scripts
\* is the number of cells it returned.
C27_TotalAccounting ==
    /\ it.total_scripts = d_emitted + StillToReturn(it)
    /\ ReturnedNone /\ StillToReturn(it) = 0 => it.total_scripts = Len(d_cells)

\* the descriptor returned None after both expansions had added cells
C27_Witness ==
    /\ ReturnedNone
    /\ StillToReturn(it) = 0
    /\ d_used_calls > 0
    /\ it.max_account > it.account_gap
    /\ \E k \in 1..Len(d_cells) : d_cells[k][1] > it.max_index
    /\ it.total_scripts > (it.max_index + 1) * (it.account_gap + 1)

====
